---- MODULE Spec2Model ----
(***************************************************************************)
(* A model of gorcon/steamweb (package steamweb): the server-list filter   *)
(* encoder (GetServerListFilter.String / Validate), the client's two       *)
(* operations (GetPlayerBans, GetServerList), the shared request execution *)
(* (sendRequest) and the post-fetch filter/sort pass (filterServers).      *)
(*                                                                         *)
(* Go strings are TLA+ strings; Go slices are sequences.  A nil slice and  *)
(* an empty slice are both <<>>.  An error is a record with a kind (the    *)
(* sentinel it wraps) and the detail the message carries; NoErr is nil.    *)
(***************************************************************************)
EXTENDS Integers, Sequences, FiniteSets, TLC

VARIABLES
    config,     \* Client.config after NewClient (SetDefaults applied)
    pc,         \* position of the caller: idle / waiting / done, input / encoded
    op,         \* the operation in progress: none / bans / servers / encode
    filter,     \* the *GetServerListFilter argument
    steamIDs,   \* the steamIDs argument of GetPlayerBans
    uri,        \* the URL of the request issued by the call in progress
    requests,   \* number of HTTP requests issued by the call in progress
    res,        \* what c.http.Do and the body read gave back to sendRequest
    fetched,    \* response.Response.Servers as decoded, before filterServers
    result,     \* what the call returned: [data, err]
    query,      \* the value returned by GetServerListFilter.String
    given,      \* the Config as the caller wrote it, before SetDefaults
    calls       \* the calls of concurrent callers, each with its locals

vars == <<config, pc, op, filter, steamIDs, uri, requests, res, fetched, result, query,
          given, calls>>

----------------------------------------------------------------------------
(* Bounds of the model.                                                    *)

\* Longest exhaustively enumerated server list in a response body.
MaxServers == 3
\* Most filter fields the encoder's caller sets (or, complemented, leaves unset).
MaxSetFields == 2
\* Most steam ids passed to GetPlayerBans.
MaxIDs == 2
\* Longest enumerated server list in the runs that assume fairness.
FairMaxServers == 1
MaxCallers == 2       \* goroutines calling the one client at a time
MaxApplications == 2  \* times SetDefaults is applied to one Config

----------------------------------------------------------------------------
(* strconv.Itoa and strings.Join, strings.Contains.                        *)

Digit(d) ==
    CASE d = 0 -> "0" [] d = 1 -> "1" [] d = 2 -> "2" [] d = 3 -> "3"
      [] d = 4 -> "4" [] d = 5 -> "5" [] d = 6 -> "6" [] d = 7 -> "7"
      [] d = 8 -> "8" [] d = 9 -> "9"

RECURSIVE NatItoa(_)
NatItoa(n) == IF n < 10 THEN Digit(n) ELSE NatItoa(n \div 10) \o Digit(n % 10)

Itoa(n) == IF n < 0 THEN "-" \o NatItoa(0 - n) ELSE NatItoa(n)

RECURSIVE Join(_, _)
Join(elems, sep) ==
    IF Len(elems) = 0 THEN ""
    ELSE IF Len(elems) = 1 THEN elems[1]
    ELSE elems[1] \o sep \o Join(Tail(elems), sep)

Contains(s, substr) ==
    \E i \in 1..(Len(s) - Len(substr) + 1) : SubSeq(s, i, i + Len(substr) - 1) = substr

----------------------------------------------------------------------------
(* GetServerListFilter: the fields, in declaration order, and zero value.  *)

FieldNames ==
    {"NotOr", "NotAnd", "Dedicated", "Secure", "GameDir", "Map", "Linux",
     "NoPassword", "NotEmpty", "NotFull", "Proxy", "AppID", "NotAppID",
     "NoPlayers", "Whitelisted", "GameTypeTags", "GameDataTags",
     "GameDataOrTags", "NameMatch", "VersionMatch", "CollapseAddrHash",
     "GameAddr", "NoHidden", "NoDefaultServers", "Limit"}

BoolFields ==
    {"Dedicated", "Secure", "Linux", "NoPassword", "NotEmpty", "NotFull", "Proxy",
     "NoPlayers", "Whitelisted", "CollapseAddrHash", "NoHidden", "NoDefaultServers"}

StringFields == {"GameDir", "Map", "NameMatch", "VersionMatch", "GameAddr"}

ListFields == {"NotOr", "NotAnd", "GameTypeTags", "GameDataTags", "GameDataOrTags"}

ZeroValue(f) ==
    IF f \in BoolFields THEN FALSE
    ELSE IF f \in StringFields THEN ""
    ELSE IF f \in ListFields THEN <<>>
    ELSE 0

ZeroFilter == [f \in FieldNames |-> ZeroValue(f)]

(* GetServerListFilter.String: the url part with params.  Each `if` of   *)
(* the source appends its segment to query when its condition holds.       *)
\* A variant that appends the segment whether or not the condition holds.
WhenAlways(cond, segment) == segment

When(cond, segment) == IF cond THEN segment ELSE ""

\* A variant that also writes the limit into the filter string.
AppIDParamWithLimit(g) ==
    "\\appid\\" \o Itoa(g.AppID) \o When(g.Limit # 0, "\\limit\\" \o Itoa(g.Limit))

AppIDParam(g) == "\\appid\\" \o Itoa(g.AppID)

\* A variant that renders map before gamedir.
StringMapFirst(g) ==
    LET q0  == AppIDParam(g)
        q1  == q0 \o When(g.Dedicated, "\\dedicated\\1")
        q2  == q1 \o When(g.Secure, "\\secure\\1")
        q3  == q2 \o When(g.Map # "", "\\map\\" \o g.Map)
        q4  == q3 \o When(g.GameDir # "", "\\gamedir\\" \o g.GameDir)
        q5  == q4 \o When(g.Linux, "\\linux\\1")
        q6  == q5 \o When(g.NoPassword, "\\password\\0")
        q7  == q6 \o When(g.NotEmpty, "\\empty\\1")
        q8  == q7 \o When(g.NotFull, "\\full\\1")
        q9  == q8 \o When(g.Proxy, "\\proxy\\1")
        q10 == q9 \o When(g.NotAppID # 0, "\\napp\\" \o Itoa(g.NotAppID))
        q11 == q10 \o When(g.NoPlayers, "\\noplayers\\1")
        q12 == q11 \o When(g.Whitelisted, "\\white\\1")
        q13 == q12 \o When(Len(g.GameTypeTags) # 0,
                           "\\gametype\\" \o Join(g.GameTypeTags, ";"))
        q14 == q13 \o When(Len(g.GameDataTags) # 0,
                           "\\gamedata\\" \o Join(g.GameDataTags, ","))
        q15 == q14 \o When(Len(g.GameDataOrTags) # 0,
                           "\\gamedataor\\" \o Join(g.GameDataOrTags, ","))
        q16 == q15 \o When(g.NameMatch # "", "\\name_match\\*" \o g.NameMatch \o "*")
    IN  q16

String(g) ==
    LET q0  == AppIDParam(g)
        q1  == q0 \o When(g.Dedicated, "\\dedicated\\1")
        q2  == q1 \o When(g.Secure, "\\secure\\1")
        q3  == q2 \o When(g.GameDir # "", "\\gamedir\\" \o g.GameDir)
        q4  == q3 \o When(g.Map # "", "\\map\\" \o g.Map)
        q5  == q4 \o When(g.Linux, "\\linux\\1")
        q6  == q5 \o When(g.NoPassword, "\\password\\0")
        q7  == q6 \o When(g.NotEmpty, "\\empty\\1")
        q8  == q7 \o When(g.NotFull, "\\full\\1")
        q9  == q8 \o When(g.Proxy, "\\proxy\\1")
        q10 == q9 \o When(g.NotAppID # 0, "\\napp\\" \o Itoa(g.NotAppID))
        q11 == q10 \o When(g.NoPlayers, "\\noplayers\\1")
        q12 == q11 \o When(g.Whitelisted, "\\white\\1")
        q13 == q12 \o When(Len(g.GameTypeTags) # 0,
                           "\\gametype\\" \o Join(g.GameTypeTags, ";"))
        q14 == q13 \o When(Len(g.GameDataTags) # 0,
                           "\\gamedata\\" \o Join(g.GameDataTags, ","))
        q15 == q14 \o When(Len(g.GameDataOrTags) # 0,
                           "\\gamedataor\\" \o Join(g.GameDataOrTags, ","))
        q16 == q15 \o When(g.NameMatch # "", "\\name_match\\*" \o g.NameMatch \o "*")
    IN  q16

(* GetServerListFilter.Validate: the required-parameter check.             *)
NoErr == [kind |-> "nil", param |-> "", code |-> 0]

Err(kind) == [kind |-> kind, param |-> "", code |-> 0]

ErrRequiredParam(param) == [kind |-> "ErrRequiredParam", param |-> param, code |-> 0]

ErrWrongStatusCode(code) == [kind |-> "ErrWrongStatusCode", param |-> "", code |-> code]

Validate(g) == IF g.AppID = 0 THEN ErrRequiredParam("appid") ELSE NoErr

----------------------------------------------------------------------------
(* Config and its defaults.  A time.Duration is counted in milliseconds.   *)

Second == 1000
DefaultSteamURL == "https://api.steampowered.com"
DefaultTimeout == 10 * Second
DefaultTLSHandshakeTimeout == 5 * Second
DefaultDialerTimeout == 5 * Second
DefaultLimit == 50000

\* A variant that overwrites Limit whether or not it is zero.
SetDefaultsOverwritingLimit(cfg) ==
    [cfg EXCEPT
        !.URL = IF @ = "" THEN DefaultSteamURL ELSE @,
        !.Timeout = IF @ = 0 THEN DefaultTimeout ELSE @,
        !.Transport.TLSHandshakeTimeout = IF @ = 0 THEN DefaultTLSHandshakeTimeout ELSE @,
        !.Transport.Dialer.Timeout = IF @ = 0 THEN DefaultDialerTimeout ELSE @,
        !.Limit = DefaultLimit]

SetDefaults(cfg) ==
    [cfg EXCEPT
        !.URL = IF @ = "" THEN DefaultSteamURL ELSE @,
        !.Timeout = IF @ = 0 THEN DefaultTimeout ELSE @,
        !.Transport.TLSHandshakeTimeout = IF @ = 0 THEN DefaultTLSHandshakeTimeout ELSE @,
        !.Transport.Dialer.Timeout = IF @ = 0 THEN DefaultDialerTimeout ELSE @,
        !.Limit = IF @ = 0 THEN DefaultLimit ELSE @]

(* NewClient: the configuration the client holds.                          *)
NewClient(cfg) == SetDefaults(cfg)

----------------------------------------------------------------------------
(* The request URLs (fmt.Sprintf of the two templates).                    *)

GetPlayerBansURI(c, ids) ==
    c.URL \o "/ISteamUser/GetPlayerBans/v1?key=" \o c.Key
          \o "&steamids=" \o Join(ids, ",")

EffectiveLimit(g) == IF g.Limit = 0 THEN DefaultLimit ELSE g.Limit

\* A variant whose limit falls back on the configured Limit.
GetServerListURIConfigLimit(c, g) ==
    c.URL \o "/IGameServersService/GetServerList/v1?key=" \o c.Key
          \o "&limit=" \o Itoa(IF g.Limit = 0 THEN c.Limit ELSE g.Limit)
          \o "&filter=" \o String(g)

GetServerListURI(c, g) ==
    c.URL \o "/IGameServersService/GetServerList/v1?key=" \o c.Key
          \o "&limit=" \o Itoa(EffectiveLimit(g))
          \o "&filter=" \o String(g)

(* http.NewRequestWithContext fails on a URL url.Parse rejects; of those   *)
(* the model has the one with no protocol scheme (a leading colon).        *)
NewRequestFails(u) == Len(u) > 0 /\ SubSeq(u, 1, 1) = ":"

----------------------------------------------------------------------------
(* sort.Slice(servers, less) with less(i, j) = Players[i] > Players[j].    *)
(* sort.Slice runs pdqsort_func over the slice: a range of at most         *)
(* maxInsertion elements is insertion-sorted; a longer one is partitioned  *)
(* around a pivot first.  Indices are Go's (from 0); At reads one.         *)
(* Modelled for slices of up to maxInsertion + 1 elements, where both      *)
(* sides of the first partition are insertion-sorted (no breakPatterns,    *)
(* heapSort, partitionEqual or ninther is reached).                        *)

At(data, i) == data[i + 1]

Less(data, i, j) == At(data, i).Players > At(data, j).Players

Swap(data, i, j) == [data EXCEPT ![i + 1] = data[j + 1], ![j + 1] = data[i + 1]]

maxInsertion == 12

RECURSIVE InsertionInner(_, _, _)
InsertionInner(data, a, j) ==
    IF j > a /\ Less(data, j, j - 1)
    THEN InsertionInner(Swap(data, j, j - 1), a, j - 1)
    ELSE data

RECURSIVE InsertionOuter(_, _, _, _)
InsertionOuter(data, a, b, i) ==
    IF i < b THEN InsertionOuter(InsertionInner(data, a, i), a, b, i + 1) ELSE data

insertionSortLessFunc(data, a, b) == InsertionOuter(data, a, b, a + 1)

\* order2: x, y with data[x] <= data[y], and whether the two were swapped.
order2LessFunc(data, a, b) ==
    IF Less(data, b, a) THEN [x |-> b, y |-> a, swaps |-> 1]
                        ELSE [x |-> a, y |-> b, swaps |-> 0]

\* median of data[a], data[b], data[c], and the swaps it took.
medianLessFunc(data, a, b, c) ==
    LET o1 == order2LessFunc(data, a, b)
        o2 == order2LessFunc(data, o1.y, c)
        o3 == order2LessFunc(data, o1.x, o2.x)
    IN  [pivot |-> o3.y, swaps |-> o1.swaps + o2.swaps + o3.swaps]

choosePivotLessFunc(data, a, b) ==
    LET l == b - a
        i == a + (l \div 4) * 1
        j == a + (l \div 4) * 2
        k == a + (l \div 4) * 3
        m == IF l >= 8 THEN medianLessFunc(data, i, j, k) ELSE [pivot |-> j, swaps |-> 0]
    IN  [pivot |-> m.pivot,
         hint  |-> IF m.swaps = 0 THEN "increasing" ELSE "unknown"]

\* partialInsertionSort on a range shorter than shortestShifting (50): it
\* only reports whether the range is already sorted.
RECURSIVE FirstDescent(_, _, _)
FirstDescent(data, i, b) ==
    IF i < b /\ ~Less(data, i, i - 1) THEN FirstDescent(data, i + 1, b) ELSE i

partialInsertionSortLessFunc(data, a, b) == FirstDescent(data, a + 1, b) = b

RECURSIVE ScanUp(_, _, _, _)
ScanUp(data, a, i, j) ==
    IF i <= j /\ Less(data, i, a) THEN ScanUp(data, a, i + 1, j) ELSE i

RECURSIVE ScanDown(_, _, _, _)
ScanDown(data, a, i, j) ==
    IF i <= j /\ ~Less(data, j, a) THEN ScanDown(data, a, i, j - 1) ELSE j

RECURSIVE PartitionLoop(_, _, _, _)
PartitionLoop(data, a, i0, j0) ==
    LET i == ScanUp(data, a, i0, j0)
        j == ScanDown(data, a, i, j0)
    IN  IF i > j THEN [data |-> Swap(data, j, a), mid |-> j]
        ELSE PartitionLoop(Swap(data, i, j), a, i + 1, j - 1)

partitionLessFunc(data0, a, b, pivot) ==
    LET data == Swap(data0, a, pivot)
        i    == ScanUp(data, a, a + 1, b - 1)
        j    == ScanDown(data, a, i, b - 1)
    IN  IF i > j THEN [data |-> Swap(data, j, a), mid |-> j]
        ELSE PartitionLoop(Swap(data, i, j), a, i + 1, j - 1)

RECURSIVE pdqsortLessFunc(_, _, _)
pdqsortLessFunc(data, a, b) ==
    IF b - a <= maxInsertion THEN insertionSortLessFunc(data, a, b)
    ELSE LET cp == choosePivotLessFunc(data, a, b)
         IN  IF cp.hint = "increasing" /\ partialInsertionSortLessFunc(data, a, b)
             THEN data
             ELSE LET p == partitionLessFunc(data, a, b, cp.pivot)
                  IN  IF p.mid - a < b - p.mid
                      THEN pdqsortLessFunc(pdqsortLessFunc(p.data, a, p.mid), p.mid + 1, b)
                      ELSE pdqsortLessFunc(pdqsortLessFunc(p.data, p.mid + 1, b), a, p.mid)

SortSlice(servers) == pdqsortLessFunc(servers, 0, Len(servers))

----------------------------------------------------------------------------
(* Client.filterServers and Client.removeFilteredServers.                  *)

Range(seq) == {seq[i] : i \in 1..Len(seq)}

\* The loop body: whether servers[i].Addr is put into removeAddrs.
MarkedForRemoval(c, server, g) ==
    \/ g.NoHidden /\ Contains(server.GameType, "hidden")
    \/ g.NoDefaultServers /\ \E name \in Range(c.DefaultServerNames) : server.Name = name

RemoveAddrs(c, servers, g) ==
    {servers[i].Addr : i \in {k \in 1..Len(servers) : MarkedForRemoval(c, servers[k], g)}}

removeFilteredServers(servers, addrs) ==
    SelectSeq(servers, LAMBDA s : s.Addr \notin addrs)

filterServers(c, servers, g) ==
    LET kept == IF g.NoHidden \/ g.NoDefaultServers
                THEN removeFilteredServers(servers, RemoveAddrs(c, servers, g))
                ELSE servers
    IN  SortSlice(kept)

----------------------------------------------------------------------------
(* The inputs: configurations, filters, steam ids and what the remote end  *)
(* can answer.                                                             *)

ZeroDialer == [Timeout |-> 0, Deadline |-> 0, FallbackDelay |-> 0, KeepAlive |-> 0]

\* The Config values handed to NewClient.
UserConfigs ==
    [Disabled : BOOLEAN,
     Key : {"K"},
     URL : {"", "http://127.0.0.1:8080", ":8080"},
     Timeout : {0},
     Transport : {[Dialer |-> ZeroDialer, TLSHandshakeTimeout |-> 0]},
     Limit : {0, 7},
     DefaultServerNames : {<<>>, <<"My PZ Server">>, <<"Best Server", "My PZ Server">>}]

\* The filters handed to GetServerList.
ClientFilters ==
    {[ZeroFilter EXCEPT !.AppID = a, !.NoHidden = h, !.NoDefaultServers = d, !.Limit = l] :
        a \in {0, 108600}, h \in BOOLEAN, d \in BOOLEAN, l \in {0, 2}}

SteamIDSet == {"7656119", "7656120"}

SeqsUpTo(S, n) == UNION {[1..k -> S] : k \in 0..n}

\* Server records: the fields filterServers reads (Addr, Name, Players, GameType).
Server(addr, name, players, gametype) ==
    [Addr |-> addr, Name |-> name, Players |-> players, GameType |-> gametype]

ServerSet ==
    {Server("127.0.0.1:16261", "My PZ Server", 2, "hidden;hosted"),
     Server("127.0.0.2:16267", "Super Server", 0, ""),
     Server("127.0.0.3:16260", "Best Server", 9, "hosted;hidden"),
     Server("127.0.0.1:16261", "Super Server", 2, ""),
     Server("127.0.0.5:16261", "My PZ Server 2", 2, "hidde;n")}

\* A list one longer than sort's insertion-sort threshold: every server has
\* one player but the k-th, which has none (k = 0: all have one).
LongList(k) ==
    [i \in 1..(maxInsertion + 1) |->
        Server("10.0.0." \o Itoa(i), "Srv", IF i = k THEN 0 ELSE 1, "")]

ServerLists(n) == SeqsUpTo(ServerSet, n) \cup {LongList(k) : k \in 0..(maxInsertion + 1)}

PlayerBansSet == {[SteamID |-> "7656119", VACBanned |-> TRUE]}

StatusOK == 200

\* What c.http.Do returns, and the body behind a response.
Response(kind, status, body, payload) ==
    [kind |-> kind, status |-> status, body |-> body, payload |-> payload]

NoResponse == Response("none", 0, "", <<>>)

Failures ==
    {Response("error", 0, "", <<>>), Response("nil", 0, "", <<>>)}
    \cup {Response("response", st, "", <<>>) : st \in {201, 301, 404, 500}}
    \cup {Response("response", StatusOK, b, <<>>) : b \in {"unreadable", "malformed"}}

Responses(o, n) ==
    Failures \cup
    {Response("response", StatusOK, "json", l) :
        l \in IF o = "bans" THEN SeqsUpTo(PlayerBansSet, 1) ELSE ServerLists(n)}

----------------------------------------------------------------------------
(* Client.sendRequest after c.http.Do, and the two operations' returns.    *)

Returned(data, err) == [data |-> data, err |-> err]

NoResult == Returned(<<>>, Err("pending"))

\* A variant that takes every status below 400 for a success.
sendRequestAcceptsBelow400(r) ==
    IF r.kind = "error" THEN Returned(<<>>, Err("transport"))
    ELSE IF r.kind = "nil" THEN Returned(<<>>, Err("ErrEmptyResponse"))
    ELSE IF r.status >= 400 THEN Returned(<<>>, ErrWrongStatusCode(r.status))
    ELSE IF r.body = "unreadable" THEN Returned(<<>>, Err("read"))
    ELSE Returned(r, NoErr)

sendRequest(r) ==
    IF r.kind = "error" THEN Returned(<<>>, Err("transport"))
    ELSE IF r.kind = "nil" THEN Returned(<<>>, Err("ErrEmptyResponse"))
    ELSE IF r.status # StatusOK THEN Returned(<<>>, ErrWrongStatusCode(r.status))
    ELSE IF r.body = "unreadable" THEN Returned(<<>>, Err("read"))
    ELSE Returned(r, NoErr)

\* json.Unmarshal of the body into the response struct.
Unmarshal(r) ==
    IF r.body = "malformed" THEN Returned(<<>>, Err("json")) ELSE Returned(r.payload, NoErr)

\* GetPlayerBans from the sendRequest call on.
GetPlayerBansReturn(r) ==
    LET sent == sendRequest(r)
    IN  IF sent.err # NoErr THEN Returned(<<>>, sent.err) ELSE Unmarshal(sent.data)

\* GetServerList from the sendRequest call on.
GetServerListReturn(c, g, r) ==
    LET sent    == sendRequest(r)
        decoded == Unmarshal(sent.data)
    IN  IF sent.err # NoErr THEN Returned(<<>>, sent.err)
        ELSE IF decoded.err # NoErr THEN Returned(<<>>, decoded.err)
        ELSE Returned(filterServers(c, decoded.data, g), NoErr)

\* Where a call stands after its first part: returned (done) or waiting
\* for c.http.Do, with the requests it has issued.
Started(p, u, n, ret) == [pc |-> p, uri |-> u, requests |-> n, result |-> ret]

StartRequest(u) ==
    IF NewRequestFails(u) THEN Started("done", u, 0, Returned(<<>>, Err("url")))
    ELSE Started("waiting", u, 1, NoResult)

\* A variant that sends the request on a disabled client too.
GetPlayerBansStartIgnoringDisabled(c, ids) == StartRequest(GetPlayerBansURI(c, ids))

GetPlayerBansStart(c, ids) ==
    IF c.Disabled THEN Started("done", "", 0, Returned(<<>>, NoErr))
    ELSE StartRequest(GetPlayerBansURI(c, ids))

\* A variant that validates the filter before it builds the request.
GetServerListStartValidating(c, g) ==
    IF c.Disabled THEN Started("done", "", 0, Returned(<<>>, NoErr))
    ELSE IF Validate(g) # NoErr THEN Started("done", "", 0, Returned(<<>>, Validate(g)))
    ELSE StartRequest(GetServerListURI(c, g))

GetServerListStart(c, g) ==
    IF c.Disabled THEN Started("done", "", 0, Returned(<<>>, NoErr))
    ELSE StartRequest(GetServerListURI(c, g))

----------------------------------------------------------------------------
(* The client: one caller making one call after another.                   *)

Init ==
    /\ given \in UserConfigs
    /\ config = NewClient(given)
    /\ calls = <<>>
    /\ pc = "idle"
    /\ op = "none"
    /\ filter = ZeroFilter
    /\ steamIDs = <<>>
    /\ uri = ""
    /\ requests = 0
    /\ res = NoResponse
    /\ fetched = <<>>
    /\ result = NoResult
    /\ query = ""

GetPlayerBans(ids) ==
    /\ pc = "idle"
    /\ LET st == GetPlayerBansStart(config, ids)
       IN  /\ pc' = st.pc
           /\ uri' = st.uri
           /\ requests' = st.requests
           /\ result' = st.result
    /\ op' = "bans"
    /\ steamIDs' = ids
    /\ UNCHANGED <<config, given, calls, filter, res, fetched, query>>

GetServerList(g) ==
    /\ pc = "idle"
    /\ LET st == GetServerListStart(config, g)
       IN  /\ pc' = st.pc
           /\ uri' = st.uri
           /\ requests' = st.requests
           /\ result' = st.result
    /\ op' = "servers"
    /\ filter' = g
    /\ UNCHANGED <<config, given, calls, steamIDs, res, fetched, query>>

\* A variant that sends the request once more after a failed attempt.
DeliverRetrying(r) ==
    /\ pc = "waiting"
    /\ res' = r
    /\ IF sendRequest(r).err # NoErr /\ requests < 2
       THEN /\ requests' = requests + 1
            /\ UNCHANGED <<pc, result, fetched>>
       ELSE /\ result' = IF op = "bans" THEN GetPlayerBansReturn(r)
                         ELSE GetServerListReturn(config, filter, r)
            /\ fetched' = IF op = "servers" /\ sendRequest(r).err = NoErr
                          THEN Unmarshal(r).data ELSE <<>>
            /\ pc' = "done"
            /\ UNCHANGED requests
    /\ UNCHANGED <<config, given, calls, op, filter, steamIDs, uri, query>>

\* c.http.Do returns r and the call runs to its return.
Deliver(r) ==
    /\ pc = "waiting"
    /\ res' = r
    /\ result' = IF op = "bans" THEN GetPlayerBansReturn(r)
                 ELSE GetServerListReturn(config, filter, r)
    /\ fetched' = IF op = "servers" /\ sendRequest(r).err = NoErr
                  THEN Unmarshal(r).data ELSE <<>>
    /\ pc' = "done"
    /\ UNCHANGED <<config, given, calls, op, filter, steamIDs, uri, requests, query>>

Respond(n) == pc = "waiting" /\ \E r \in Responses(op, n) : Deliver(r)

\* The caller takes the result; the next call starts afresh.
Return ==
    /\ pc = "done"
    /\ op \in {"bans", "servers"}
    /\ pc' = "idle"
    /\ op' = "none"
    /\ filter' = ZeroFilter
    /\ steamIDs' = <<>>
    /\ uri' = ""
    /\ requests' = 0
    /\ res' = NoResponse
    /\ fetched' = <<>>
    /\ result' = NoResult
    /\ UNCHANGED <<config, given, calls, query>>

Next ==
    \/ \E ids \in SeqsUpTo(SteamIDSet, MaxIDs) : GetPlayerBans(ids)
    \/ \E g \in ClientFilters : GetServerList(g)
    \/ Respond(MaxServers)
    \/ Return

Spec == Init /\ [][Next]_vars

----------------------------------------------------------------------------
(* The encoder on its own: a caller builds a filter and renders it.        *)

\* The non-zero value a caller gives field f (v picks one of two).
NonZeroValue(f, v) ==
    IF f \in BoolFields THEN TRUE
    ELSE IF f \in StringFields THEN (IF v = 1 THEN f ELSE "my " \o f)
    ELSE IF f \in ListFields THEN (IF v = 1 THEN <<"t1">> ELSE <<"t1", "t2">>)
    ELSE IF f = "AppID" THEN (IF v = 1 THEN 108600 ELSE 7)
    ELSE IF f = "NotAppID" THEN (IF v = 1 THEN 500 ELSE -1)
    ELSE (IF v = 1 THEN 2 ELSE 10)

FilterWith(S, v) == [f \in FieldNames |-> IF f \in S THEN NonZeroValue(f, v) ELSE ZeroValue(f)]

\* Filters with at most MaxSetFields fields set, or all but that many.
EncoderFilters(n) ==
    LET few == {{s[i] : i \in 1..Len(s)} : s \in SeqsUpTo(FieldNames, n)}
    IN  {FilterWith(S, v) : S \in few \cup {FieldNames \ T : T \in few}, v \in 1..2}

EncoderConfig ==
    NewClient([Disabled |-> FALSE, Key |-> "K", URL |-> "", Timeout |-> 0,
               Transport |-> [Dialer |-> ZeroDialer, TLSHandshakeTimeout |-> 0],
               Limit |-> 0, DefaultServerNames |-> <<>>])

EncInit ==
    /\ config = EncoderConfig
    /\ given = EncoderConfig
    /\ calls = <<>>
    /\ pc = "input"
    /\ op = "encode"
    /\ filter \in EncoderFilters(MaxSetFields)
    /\ steamIDs = <<>>
    /\ uri = ""
    /\ requests = 0
    /\ res = NoResponse
    /\ fetched = <<>>
    /\ result = NoResult
    /\ query = ""

Encode ==
    /\ pc = "input"
    /\ query' = String(filter)
    /\ pc' = "encoded"
    /\ UNCHANGED <<config, given, calls, op, filter, steamIDs, uri, requests, res, fetched, result>>

EncNext == Encode

EncSpec == EncInit /\ [][EncNext]_vars

----------------------------------------------------------------------------
(* Reading an encoded filter back: its \key\value segments, in order.      *)

\* The pieces of l followed by those of r, the last of l and the first of r
\* being one piece.
MergePieces(l, r) ==
    SubSeq(l, 1, Len(l) - 1) \o <<l[Len(l)] \o Head(r)>> \o Tail(r)

RECURSIVE PiecesBetween(_, _, _)
PiecesBetween(s, lo, hi) ==
    IF lo > hi THEN <<"">>
    ELSE IF lo = hi
         THEN (IF SubSeq(s, lo, lo) = "\\" THEN <<"", "">> ELSE <<SubSeq(s, lo, lo)>>)
    ELSE MergePieces(PiecesBetween(s, lo, (lo + hi) \div 2),
                     PiecesBetween(s, (lo + hi) \div 2 + 1, hi))

\* The pieces of s between backslashes.
Pieces(s) == PiecesBetween(s, 1, Len(s))

\* The segments of s: the pieces after the first, pairwise.
Segments(s) ==
    LET t == Pieces(s)
    IN  IF t[1] # "" \/ Len(t) % 2 # 1 THEN <<[key |-> "malformed", value |-> s]>>
        ELSE [k \in 1..((Len(t) - 1) \div 2) |-> [key |-> t[2 * k], value |-> t[2 * k + 1]]]

Keys(segs) == [k \in 1..Len(segs) |-> segs[k].key]

HasKey(segs, key) == \E k \in 1..Len(segs) : segs[k].key = key

\* The value the segment with this key carries (keys do not repeat).
ValueOf(segs, key) == segs[CHOOSE k \in 1..Len(segs) : segs[k].key = key].value

Encoded == pc = "encoded" /\ op = "encode"

\* The order the claim fixes.
FixedOrder ==
    <<"appid", "dedicated", "secure", "gamedir", "map", "linux", "password",
      "empty", "full", "proxy", "napp", "noplayers", "white", "gametype",
      "gamedata", "gamedataor", "name_match">>

\* The boolean fields the encoder renders, by key.
BoolKeyField ==
    [dedicated |-> "Dedicated", secure |-> "Secure", linux |-> "Linux",
     password |-> "NoPassword", empty |-> "NotEmpty", full |-> "NotFull",
     proxy |-> "Proxy", noplayers |-> "NoPlayers", white |-> "Whitelisted"]

BoolKeys == DOMAIN BoolKeyField

\* Whether the claim has the segment with this key present for filter g.
SegmentDue(g, key) ==
    CASE key = "appid" -> TRUE
      [] key \in BoolKeys -> g[BoolKeyField[key]]
      [] key = "gamedir" -> g.GameDir # ""
      [] key = "map" -> g.Map # ""
      [] key = "napp" -> g.NotAppID # 0
      [] key = "gametype" -> g.GameTypeTags # <<>>
      [] key = "gamedata" -> g.GameDataTags # <<>>
      [] key = "gamedataor" -> g.GameDataOrTags # <<>>
      [] key = "name_match" -> g.NameMatch # ""

\* The value the claim gives the segment of a non-boolean key.
ValueDue(g, key) ==
    CASE key = "appid" -> Itoa(g.AppID)
      [] key = "gamedir" -> g.GameDir
      [] key = "map" -> g.Map
      [] key = "napp" -> Itoa(g.NotAppID)
      [] key = "gametype" -> Join(g.GameTypeTags, ";")
      [] key = "gamedata" -> Join(g.GameDataTags, ",")
      [] key = "gamedataor" -> Join(g.GameDataOrTags, ",")
      [] key = "name_match" -> "*" \o g.NameMatch \o "*"

KeysDue(g) == SelectSeq(FixedOrder, LAMBDA key : SegmentDue(g, key))

C9_EveryBoolEmitsOne ==
    Encoded =>
        LET segs == Segments(query)
        IN  \A key \in BoolKeys :
                IF filter[BoolKeyField[key]]
                THEN HasKey(segs, key) /\ ValueOf(segs, key) = "1"
                ELSE ~HasKey(segs, key)

(* C9 amended: every rendered boolean field contributes nothing when false *)
(* and one segment when true: \password\0 for NoPassword, \<key>\1 for     *)
(* every other.                                                            *)
C9_BoolSegments ==
    Encoded =>
        LET segs == Segments(query)
        IN  \A key \in BoolKeys :
                IF filter[BoolKeyField[key]]
                THEN /\ HasKey(segs, key)
                     /\ ValueOf(segs, key) = IF key = "password" THEN "0" ELSE "1"
                ELSE ~HasKey(segs, key)

\* A filter with NoPassword and another boolean set, and one unset, has been encoded.
C9_Witness ==
    /\ Encoded
    /\ filter.NoPassword
    /\ filter.Secure
    /\ ~filter.Linux

\* g with the fields in S reset to their zero values.
Without(g, S) == [f \in FieldNames |-> IF f \in S THEN ZeroValue(f) ELSE g[f]]

NeverEncoded == {"NotOr", "NotAnd", "VersionMatch", "CollapseAddrHash", "GameAddr"}

----------------------------------------------------------------------------
(* Properties of the client.                                               *)

Enabled == ~config.Disabled

\* GetServerList has been called and has gone past its first part.
ServerListCalled == op = "servers" /\ pc \in {"waiting", "done"}

\* GetServerList has returned a list.
ServerListReturned == op = "servers" /\ pc = "done" /\ Enabled /\ result.err = NoErr

(* C1 as stated: on an enabled client a filter whose AppID is 0 makes      *)
(* GetServerList fail with ErrRequiredParam naming "appid", and no HTTP    *)
(* request is issued.                                                      *)
C1_FailsBeforeRequest ==
    (ServerListCalled /\ Enabled /\ filter.AppID = 0) =>
        /\ pc = "done"
        /\ result.err = ErrRequiredParam("appid")
        /\ requests = 0

(* C1 amended: Validate returns ErrRequiredParam naming "appid" exactly    *)
(* when AppID is 0, but GetServerList does not call it: on an enabled      *)
(* client a filter with AppID 0 is encoded as \appid\0 and sent as any     *)
(* other (one HTTP request, unless the URL itself is rejected), and the    *)
(* call never returns the required-parameter error.                        *)
C1_ValidateNotCalled ==
    ServerListCalled =>
        /\ (Validate(filter) = ErrRequiredParam("appid")) = (filter.AppID = 0)
        /\ (Validate(filter) = NoErr) = (filter.AppID # 0)
        /\ (Enabled /\ filter.AppID = 0) =>
               /\ result.err.kind # "ErrRequiredParam"
               /\ Contains(uri, "&filter=\\appid\\0")
               /\ requests = 1 \/ (requests = 0 /\ result.err = Err("url"))

\* An enabled client was given a filter without AppID, sent its one request
\* and returned the servers of the answer.
C1_Witness ==
    /\ ServerListReturned
    /\ filter.AppID = 0
    /\ requests = 1
    /\ Len(result.data) > 0

\* The list the sort is given: the fetched list after the removal pass.
Filtered ==
    IF filter.NoHidden \/ filter.NoDefaultServers
    THEN removeFilteredServers(fetched, RemoveAddrs(config, fetched, filter))
    ELSE fetched

Descending(l) == \A i \in 1..(Len(l) - 1) : l[i].Players >= l[i + 1].Players

Max(S) == CHOOSE m \in S : \A x \in S : x <= m

\* l ordered by player count descending, equal counts in l's order.
RECURSIVE ByCountDescending(_, _)
ByCountDescending(l, counts) ==
    IF counts = {} THEN <<>>
    ELSE SelectSeq(l, LAMBDA s : s.Players = Max(counts))
             \o ByCountDescending(l, counts \ {Max(counts)})

StableDescending(l) == ByCountDescending(l, {l[i].Players : i \in 1..Len(l)})

(* C2: the list GetServerList returns is ordered by player count           *)
(* descending, and servers with equal player counts keep the relative      *)
(* order they had in the fetched (and filtered) list.                      *)
C2_SortedStable ==
    ServerListReturned =>
        /\ Descending(result.data)
        /\ result.data = StableDescending(Filtered)

HiddenTagged(s) == Contains(s.GameType, "hidden")

(* C3: with NoHidden on and NoDefaultServers off, every fetched server     *)
(* whose GameType contains "hidden" is absent from the result and every    *)
(* fetched server whose GameType does not is present.                      *)
C3_HiddenRemovedOthersKept ==
    (ServerListReturned /\ filter.NoHidden /\ ~filter.NoDefaultServers) =>
        \A s \in Range(fetched) : (s \in Range(result.data)) = ~HiddenTagged(s)

DefaultNamed(s) == s.Name \in Range(config.DefaultServerNames)

(* C4: with NoDefaultServers on and NoHidden off, every fetched server     *)
(* whose name equals a configured default name is removed and every        *)
(* fetched server whose name equals none of them is kept.                  *)
C4_DefaultNamedRemovedOthersKept ==
    (ServerListReturned /\ filter.NoDefaultServers /\ ~filter.NoHidden) =>
        \A s \in Range(fetched) : (s \in Range(result.data)) = ~DefaultNamed(s)

(* C5: on a disabled client GetPlayerBans and GetServerList return an      *)
(* empty list and no error, for any argument, and issue no HTTP request.   *)
C5_DisabledShortCircuit ==
    (config.Disabled /\ op \in {"bans", "servers"}) =>
        /\ pc = "done"
        /\ result = Returned(<<>>, NoErr)
        /\ requests = 0
        /\ res = NoResponse

\* A disabled client has returned from GetServerList with no AppID.
C5_Witness ==
    /\ config.Disabled
    /\ op = "servers"
    /\ pc = "done"
    /\ filter.AppID = 0
    /\ filter.NoHidden

(* C6: for both operations, an answer with a status code other than 200    *)
(* makes the call return no data and ErrWrongStatusCode carrying that      *)
(* code; an answer with status 200 never gives ErrWrongStatusCode.         *)
C6_WrongStatusCode ==
    (pc = "done" /\ res.kind = "response") =>
        IF res.status # StatusOK
        THEN result = Returned(<<>>, ErrWrongStatusCode(res.status))
        ELSE result.err.kind # "ErrWrongStatusCode"

\* GetPlayerBans was answered 201 and has returned.
C6_Witness ==
    /\ pc = "done"
    /\ op = "bans"
    /\ res.kind = "response"
    /\ res.status = 201

(* C7: a call issues at most one HTTP request; once the request is out the *)
(* only step is the call's return, with no further request, whatever the   *)
(* answer (transport failure, wrong status, undecodable body); and every   *)
(* call that waits for an answer returns.                                  *)
C7_SingleAttempt ==
    /\ [](requests <= 1)
    /\ [][pc = "waiting" => (pc' = "done" /\ requests' = requests)]_vars
    /\ (pc = "waiting" ~> pc = "done")

\* A call has returned a transport failure after its one request.
C7_Witness ==
    /\ pc = "done"
    /\ requests = 1
    /\ result.err = Err("transport")

\* The answer arrives: the request times out at the latest (the client's
\* Timeout is positive after SetDefaults).
FairNext ==
    \/ \E ids \in SeqsUpTo(SteamIDSet, MaxIDs) : GetPlayerBans(ids)
    \/ \E g \in ClientFilters : GetServerList(g)
    \/ Respond(FairMaxServers)
    \/ Return

FairSpec == Init /\ [][FairNext]_vars /\ WF_vars(Respond(FairMaxServers))

----------------------------------------------------------------------------
(* C11: the limit parameter of the server-list URL.                        *)

\* The first position of sub in s, 0 when s does not contain it.
Find(s, sub) ==
    LET hits == {i \in 1..(Len(s) - Len(sub) + 1) : SubSeq(s, i, i + Len(sub) - 1) = sub}
    IN  IF hits = {} THEN 0 ELSE CHOOSE i \in hits : \A j \in hits : i <= j

\* The text of the limit parameter of a server-list URL.
LimitParam(u) ==
    LET a == Find(u, "&limit=")
        b == Find(u, "&filter=")
    IN  IF a = 0 \/ b = 0 \/ b < a THEN "none" ELSE SubSeq(u, a + Len("&limit="), b - 1)

ServerListURLBuilt == op = "servers" /\ uri # ""

\* C11: the limit parameter of the server-list request URL is the filter's
\* Limit when that is non-zero and 50000 otherwise, whatever Config.Limit is.
C11_LimitSent ==
    ServerListURLBuilt =>
        LimitParam(uri) = IF filter.Limit # 0 THEN Itoa(filter.Limit) ELSE "50000"

\* A server-list request went out with no filter limit on a client whose
\* configured Limit is not the library default.
C11_Witness ==
    /\ ServerListURLBuilt
    /\ pc = "waiting"
    /\ filter.Limit = 0
    /\ config.Limit # DefaultLimit
    /\ LimitParam(uri) = "50000"


----------------------------------------------------------------------------
(* Config.SetDefaults on its own: a caller's Config, defaulted over and    *)
(* over.                                                                   *)

\* Configs with each field SetDefaults looks at zero, positive or negative,
\* and each field it does not look at zero or set.
DefaultableConfigs ==
    [Disabled : BOOLEAN,
     Key : {"", "K"},
     URL : {"", "http://127.0.0.1:8080"},
     Timeout : {0, 3 * Second, -1},
     Transport : [Dialer : [Timeout : {0, 2 * Second},
                            Deadline : {0, 1},
                            FallbackDelay : {0, -1},
                            KeepAlive : {0, 15 * Second}],
                  TLSHandshakeTimeout : {0, Second}],
     Limit : {0, 7, -1},
     DefaultServerNames : {<<>>, <<"My PZ Server">>}]

DefInit ==
    /\ given \in DefaultableConfigs
    /\ config = given
    /\ pc = "input"
    /\ op = "defaults"
    /\ filter = ZeroFilter
    /\ steamIDs = <<>>
    /\ uri = ""
    /\ requests = 0
    /\ res = NoResponse
    /\ fetched = <<>>
    /\ result = NoResult
    /\ query = ""
    /\ calls = <<>>

\* cfg.SetDefaults() on the Config as it stands; requests counts the
\* applications.
ApplyDefaults ==
    /\ op = "defaults"
    /\ requests < MaxApplications
    /\ config' = SetDefaults(config)
    /\ requests' = requests + 1
    /\ pc' = "defaulted"
    /\ UNCHANGED <<given, calls, op, filter, steamIDs, uri, res, fetched, result, query>>

DefNext == ApplyDefaults

DefSpec == DefInit /\ [][DefNext]_vars

----------------------------------------------------------------------------
(* C13: what SetDefaults assigns and what it leaves.                       *)

Defaulted == op = "defaults" /\ requests >= 1

\* v when it is not the zero value, the default otherwise.
OrDefault(v, zero, default) == IF v = zero THEN default ELSE v

----------------------------------------------------------------------------
(* The client under concurrent callers: every caller runs one call after   *)
(* another, the steps of different callers interleave. A call's locals     *)
(* (its arguments, response, servers slice and removeAddrs map) are the    *)
(* caller's entry of calls; config is the one thing the callers share.     *)

Callers == 1..MaxCallers

IdleCall ==
    [pc |-> "idle", op |-> "none", filter |-> ZeroFilter, steamIDs |-> <<>>,
     res |-> NoResponse, servers |-> <<>>, removeAddrs |-> {}, result |-> NoResult]

ConcConfigs ==
    [Disabled : BOOLEAN,
     Key : {"K"},
     URL : {"", ":8080"},
     Timeout : {0},
     Transport : {[Dialer |-> ZeroDialer, TLSHandshakeTimeout |-> 0]},
     Limit : {0},
     DefaultServerNames : {<<"My PZ Server">>}]

\* No synthetic filter, NoHidden, NoDefaultServers.
ConcFilters ==
    {[ZeroFilter EXCEPT !.AppID = 108600],
     [ZeroFilter EXCEPT !.AppID = 108600, !.NoHidden = TRUE],
     [ZeroFilter EXCEPT !.AppID = 108600, !.NoDefaultServers = TRUE]}

ConcSteamIDs == {<<"7656119">>}

\* A hidden server, a default-named one and one that is neither.
ConcServerLists ==
    LET hidden  == Server("127.0.0.3:16260", "Best Server", 9, "hosted;hidden")
        default == Server("127.0.0.4:16261", "My PZ Server", 1, "")
        plain   == Server("127.0.0.2:16267", "Super Server", 0, "")
    IN  {<<>>, <<plain, hidden>>, <<default, plain, hidden>>}

ConcResponses(o) ==
    {Response("error", 0, "", <<>>), Response("response", 404, "", <<>>)}
    \cup {Response("response", StatusOK, "json", l) :
            l \in IF o = "bans" THEN SeqsUpTo(PlayerBansSet, 1) ELSE ConcServerLists}

ConcInit ==
    /\ given \in ConcConfigs
    /\ config = NewClient(given)
    /\ calls = [self \in Callers |-> IdleCall]
    /\ pc = "concurrent"
    /\ op = "none"
    /\ filter = ZeroFilter
    /\ steamIDs = <<>>
    /\ uri = ""
    /\ requests = 0
    /\ res = NoResponse
    /\ fetched = <<>>
    /\ result = NoResult
    /\ query = ""

ConcUnchanged ==
    UNCHANGED <<config, given, pc, op, filter, steamIDs, uri, requests, res, fetched,
                result, query>>

\* GetPlayerBans up to c.http.Do.
ConcGetPlayerBans(self, ids) ==
    /\ calls[self].pc = "idle"
    /\ LET st == GetPlayerBansStart(config, ids)
       IN  calls' = [calls EXCEPT ![self] =
                        [IdleCall EXCEPT !.pc = st.pc, !.op = "bans", !.steamIDs = ids,
                                         !.result = st.result]]
    /\ ConcUnchanged

\* GetServerList up to c.http.Do.
ConcGetServerList(self, g) ==
    /\ calls[self].pc = "idle"
    /\ LET st == GetServerListStart(config, g)
       IN  calls' = [calls EXCEPT ![self] =
                        [IdleCall EXCEPT !.pc = st.pc, !.op = "servers", !.filter = g,
                                         !.result = st.result]]
    /\ ConcUnchanged

\* c.http.Do returns r: sendRequest and json.Unmarshal; GetPlayerBans
\* returns, GetServerList returns on an error and enters filterServers
\* otherwise.
ConcReceive(self, r) ==
    /\ calls[self].pc = "waiting"
    /\ LET call    == calls[self]
           sent    == sendRequest(r)
           decoded == Unmarshal(sent.data)
       IN  calls' = [calls EXCEPT ![self] =
               IF call.op = "bans"
               THEN [call EXCEPT !.res = r, !.pc = "done", !.result = GetPlayerBansReturn(r)]
               ELSE IF sent.err # NoErr
               THEN [call EXCEPT !.res = r, !.pc = "done", !.result = Returned(<<>>, sent.err)]
               ELSE IF decoded.err # NoErr
               THEN [call EXCEPT !.res = r, !.pc = "done",
                                 !.result = Returned(<<>>, decoded.err)]
               ELSE [call EXCEPT !.res = r, !.pc = "filtering", !.servers = decoded.data]]
    /\ ConcUnchanged

ConcRespond(self) ==
    /\ calls[self].pc = "waiting"
    /\ \E r \in ConcResponses(calls[self].op) : ConcReceive(self, r)

\* filterServers, the loop that fills removeAddrs (skipped, with the
\* removal, when the filter asks for neither).
ConcMark(self) ==
    /\ calls[self].pc = "filtering"
    /\ LET call == calls[self]
       IN  calls' = [calls EXCEPT ![self] =
               IF call.filter.NoHidden \/ call.filter.NoDefaultServers
               THEN [call EXCEPT !.pc = "removing",
                                 !.removeAddrs = RemoveAddrs(config, call.servers, call.filter)]
               ELSE [call EXCEPT !.pc = "sorting"]]
    /\ ConcUnchanged

\* A variant in which removeAddrs is one map of the client, shared by the
\* calls in flight.
RemoveAddrsSeenShared(self) == UNION {calls[other].removeAddrs : other \in Callers}

\* The removeAddrs map a call hands to removeFilteredServers: its own.
RemoveAddrsSeen(self) == calls[self].removeAddrs

\* filterServers, the removeFilteredServers call.
ConcRemove(self) ==
    /\ calls[self].pc = "removing"
    /\ LET call == calls[self]
       IN  calls' = [calls EXCEPT ![self] =
               [call EXCEPT !.pc = "sorting",
                            !.servers = removeFilteredServers(call.servers,
                                                              RemoveAddrsSeen(self))]]
    /\ ConcUnchanged

\* filterServers, the sort.Slice call and the return of the servers.
ConcSort(self) ==
    /\ calls[self].pc = "sorting"
    /\ LET call   == calls[self]
           sorted == SortSlice(call.servers)
       IN  calls' = [calls EXCEPT ![self] =
               [call EXCEPT !.pc = "done", !.servers = sorted,
                            !.result = Returned(sorted, NoErr)]]
    /\ ConcUnchanged

\* The caller takes the result; its next call starts afresh.
ConcReturn(self) ==
    /\ calls[self].pc = "done"
    /\ calls' = [calls EXCEPT ![self] = IdleCall]
    /\ ConcUnchanged

ConcNext ==
    \E self \in Callers :
        \/ \E ids \in ConcSteamIDs : ConcGetPlayerBans(self, ids)
        \/ \E g \in ConcFilters : ConcGetServerList(self, g)
        \/ ConcRespond(self)
        \/ ConcMark(self)
        \/ ConcRemove(self)
        \/ ConcSort(self)
        \/ ConcReturn(self)

ConcSpec == ConcInit /\ [][ConcNext]_vars

----------------------------------------------------------------------------
(* C12: concurrent calls neither write the configuration nor affect one    *)
(* another.                                                                *)

\* What a call returns when it runs alone on a client with configuration c:
\* a function of c, the call's arguments and the call's response.
AloneResult(c, call) ==
    LET st == IF call.op = "bans" THEN GetPlayerBansStart(c, call.steamIDs)
              ELSE GetServerListStart(c, call.filter)
    IN  IF st.pc = "done" THEN st.result
        ELSE IF call.op = "bans" THEN GetPlayerBansReturn(call.res)
        ELSE GetServerListReturn(c, call.filter, call.res)

\* C12: under any interleaving of concurrent GetPlayerBans and
\* GetServerList calls the configuration stays what NewClient made of the
\* caller's Config, and every call returns what it returns running alone:
\* a function of its own arguments and its own response.
C12_NoInterference ==
    /\ config = NewClient(given)
    /\ \A self \in Callers :
           calls[self].pc = "done" =>
               calls[self].result = AloneResult(config, calls[self])

\* A server-list call returned a server whose address another call, still
\* in flight or just done, holds in its removeAddrs.
C12_Witness ==
    \E self \in Callers, other \in Callers :
        /\ self # other
        /\ calls[other].removeAddrs # {}
        /\ calls[self].pc = "done"
        /\ calls[self].op = "servers"
        /\ calls[self].filter.NoDefaultServers
        /\ \E k \in 1..Len(calls[self].result.data) :
               calls[self].result.data[k].Addr \in calls[other].removeAddrs

============================================================================
